---- MODULE Spec2Model ----
(***************************************************************************)
(* ShotAuto persistent store (src-tauri/src/db.rs) behind the application  *)
(* mutex (src-tauri/src/lib.rs).                                           *)
(*                                                                         *)
(* Conventions of the model                                                *)
(*   Option<T> / SQL NULL : a sequence of length <= 1 (<<>> is None/NULL,   *)
(*                          <<x>> is Some(x))                               *)
(*   config TEXT values   : sequences of one-character strings, so that    *)
(*                          u64 parsing and printing are computed           *)
(*   other TEXT values    : TLA+ strings (the code never looks inside)     *)
(*   stored timestamps    : [fmt, t]; fmt is "rfc3339" for a value written  *)
(*                          by DateTime::to_rfc3339 and "sqlite" for a      *)
(*                          CURRENT_TIMESTAMP default; t is the second      *)
(*   one step             : one SQL statement; the steps of one operation  *)
(*                          run while its caller holds the mutex            *)
(***************************************************************************)
EXTENDS Integers, Sequences, FiniteSets, TLC

VARIABLES
    config,        \* table config: key -> Option(value)
    trends,        \* table trends: sequence of rows, in the order of their ids
    jobs,          \* table jobs:   sequence of rows, row i has id i
    lastRowid,     \* the connection's last_insert_rowid()
    maxRowid,      \* the largest rowid handed out so far: .trends is the row of
                   \* trends in sqlite_sequence, .config the largest rowid in config
    clock,         \* wall clock, in seconds
    foreign_keys,  \* whether the linked SQLite enforces REFERENCES clauses
    lock,          \* AppState.db: Mutex<Database>; the callers holding its guard
    pc,            \* per caller: the operation it is inside, or "idle"
    acc,           \* per caller: argument and partial result of that operation
    held,          \* per caller: the job id its last dequeue handed it, until it
                   \* passes that id to update_job_status
    ret,           \* the most recent completed operation: its name and its Result
    firstInsert,   \* history: video_id -> Option(arguments of its first insert_trend)
    reinserted,    \* history: the video_ids a later insert_trend named again with
                   \* other columns
    snap           \* history: the config table when the mutex was taken by the
                   \* caller now inside get_config or save_config; None otherwise

vars == <<config, trends, jobs, lastRowid, maxRowid, clock, foreign_keys, lock, pc, acc, held,
          ret, firstInsert, reinserted, snap>>

storeVars == <<config, trends, jobs, lastRowid, maxRowid>>

----------------------------------------------------------------------------
(* Bounds of the model *)

MaxJobs == 2
MaxClock == 1
MaxTrendSeq == 3
MaxConfigRowid == 9

Callers == {"c1", "c2"}

None == <<>>
Some(x) == <<x>>
IsSome(o) == Len(o) = 1
Unwrap(o) == o[1]
UnwrapOr(o, d) == IF IsSome(o) THEN o[1] ELSE d

----------------------------------------------------------------------------
(* Text of config values, u64 printing and parsing *)

Digits == <<"0", "1", "2", "3", "4", "5", "6", "7", "8", "9">>

IsDigit(ch) == \E i \in 1..10 : Digits[i] = ch

DigitVal(ch) == (CHOOSE i \in 1..10 : Digits[i] = ch) - 1

RECURSIVE DigitsValue(_, _)
DigitsValue(s, a) ==
    IF s = <<>> THEN a ELSE DigitsValue(Tail(s), a * 10 + DigitVal(Head(s)))

\* Mutant: reads the leading digits and ignores what follows them
ParseU64Prefix(s) ==
    LET n == Cardinality({i \in 1..Len(s) : \A k \in 1..i : IsDigit(s[k])})
    IN  IF n > 0 THEN Some(DigitsValue(SubSeq(s, 1, n), 0)) ELSE None

\* str::parse::<u64>(): an optional leading '+', then one or more decimal
\* digits and nothing else.  (The texts of the model are too short to overflow.)
ParseU64(s) ==
    LET d == IF s # <<>> /\ Head(s) = "+" THEN Tail(s) ELSE s
    IN  IF d # <<>> /\ \A i \in 1..Len(d) : IsDigit(d[i])
        THEN Some(DigitsValue(d, 0))
        ELSE None

RECURSIVE U64Digits(_)
U64Digits(n) ==
    IF n < 10 THEN <<Digits[n + 1]>>
    ELSE Append(U64Digits(n \div 10), Digits[(n % 10) + 1])

\* u64::to_string()
U64ToString(n) == U64Digits(n)

ConfigKeys ==
    {"youtube_api_key", "telegram_bot_token", "telegram_chat_id",
     "ollama_endpoint", "poll_interval_secs"}

DefaultOllamaEndpoint ==
    <<"h", "t", "t", "p", ":", "/", "/", "l", "o", "c", "a", "l", "h", "o", "s", "t",
      ":", "1", "1", "4", "3", "4">>

DefaultPollIntervalSecs == 300

\* impl Default for Config
DefaultConfig ==
    [youtube_api_key |-> None, telegram_bot_token |-> None, telegram_chat_id |-> None,
     ollama_endpoint |-> DefaultOllamaEndpoint,
     poll_interval_secs |-> DefaultPollIntervalSecs]

\* Database::get_config: SELECT value FROM config WHERE key = ?
GetConfig(table, key) == table[key]

\* Mutant: INSERT OR IGNORE, a stored key keeps its value
SetConfigOrIgnore(table, key, value) ==
    IF IsSome(table[key]) THEN table ELSE [table EXCEPT ![key] = Some(value)]

\* Database::set_config: INSERT OR REPLACE INTO config (key, value)
SetConfig(table, key, value) == [table EXCEPT ![key] = Some(value)]

\* The keys load_config reads and save_config writes, in the order of the code
ConfigFields ==
    <<"youtube_api_key", "telegram_bot_token", "telegram_chat_id",
      "ollama_endpoint", "poll_interval_secs">>

\* The Config struct load_config builds from the five values get_config returned
ConfigFromValues(v) ==
    [youtube_api_key |-> v[1],
     telegram_bot_token |-> v[2],
     telegram_chat_id |-> v[3],
     ollama_endpoint |-> UnwrapOr(v[4], DefaultOllamaEndpoint),
     poll_interval_secs |->
        UnwrapOr(IF IsSome(v[5]) THEN ParseU64(Unwrap(v[5])) ELSE None,
                 DefaultPollIntervalSecs)]

\* Database::load_config
LoadConfig(table) ==
    ConfigFromValues([i \in 1..Len(ConfigFields) |-> GetConfig(table, ConfigFields[i])])

\* Mutant: a None field is written as the empty text
SaveValueOrEmpty(c, i) ==
    CASE i = 1 -> Some(UnwrapOr(c.youtube_api_key, <<>>))
      [] i = 2 -> Some(UnwrapOr(c.telegram_bot_token, <<>>))
      [] i = 3 -> Some(UnwrapOr(c.telegram_chat_id, <<>>))
      [] i = 4 -> Some(c.ollama_endpoint)
      [] i = 5 -> Some(U64ToString(c.poll_interval_secs))

\* The value the i-th statement of save_config writes; None when its
\* `if let Some` skips the statement

SaveValue(c, i) ==
    CASE i = 1 -> c.youtube_api_key
      [] i = 2 -> c.telegram_bot_token
      [] i = 3 -> c.telegram_chat_id
      [] i = 4 -> Some(c.ollama_endpoint)
      [] i = 5 -> Some(U64ToString(c.poll_interval_secs))

SaveStatement(table, c, i) ==
    IF IsSome(SaveValue(c, i))
    THEN SetConfig(table, ConfigFields[i], Unwrap(SaveValue(c, i)))
    ELSE table

RECURSIVE SaveFrom(_, _, _)
SaveFrom(table, c, i) ==
    IF i > Len(ConfigFields) THEN table
    ELSE SaveFrom(SaveStatement(table, c, i), c, i + 1)

\* Database::save_config
SaveConfig(table, c) == SaveFrom(table, c, 1)

----------------------------------------------------------------------------
(* JobStatus and its text form *)

JobStatus == {"Pending", "Generating", "Rendering", "Done", "Failed"}

\* JobStatus::as_str
as_str(s) ==
    CASE s = "Pending" -> "pending"
      [] s = "Generating" -> "generating"
      [] s = "Rendering" -> "rendering"
      [] s = "Done" -> "done"
      [] s = "Failed" -> "failed"

\* A decoding that reads a text other than the five status names as Failed
from_str_unknown_failed(t) ==
    CASE t = "pending" -> "Pending"
      [] t = "generating" -> "Generating"
      [] t = "rendering" -> "Rendering"
      [] t = "done" -> "Done"
      [] t = "failed" -> "Failed"
      [] OTHER -> "Failed"

\* JobStatus::from_str
from_str(t) ==
    CASE t = "pending" -> "Pending"
      [] t = "generating" -> "Generating"
      [] t = "rendering" -> "Rendering"
      [] t = "done" -> "Done"
      [] t = "failed" -> "Failed"
      [] OTHER -> "Pending"

----------------------------------------------------------------------------
(* Timestamps *)

\* DateTime<Utc>::to_rfc3339 of instant t
ToRfc3339(t) == [fmt |-> "rfc3339", t |-> t]

\* SQLite's CURRENT_TIMESTAMP column default: 'YYYY-MM-DD HH:MM:SS', no offset
CurrentTimestamp(t) == [fmt |-> "sqlite", t |-> t]

\* DateTime::parse_from_rfc3339(..).map(with_timezone(&Utc)): Err without an offset
ParseRfc3339(x) == IF x.fmt = "rfc3339" THEN Some(x.t) ELSE None

----------------------------------------------------------------------------
(* Tables trends and jobs *)

\* The positions of the rows; a job row's position is its id, a trend row has
\* the id AUTOINCREMENT gave it
TrendIds == 1..Len(trends)
JobIds == 1..Len(jobs)

TrendExists(tid) == \E i \in TrendIds : trends[i].id = tid

TrendById(tid) == trends[CHOOSE i \in TrendIds : trends[i].id = tid]

RowOfVideo(vid) == {i \in TrendIds : trends[i].video_id = vid}

\* Mutant: the conflict on video_id overwrites the stored columns (an upsert)
InsertOrUpdateTrend(tbl, t, seq) ==
    [rows |-> IF \E i \in 1..Len(tbl) : tbl[i].video_id = t.video_id
              THEN [i \in 1..Len(tbl) |->
                      IF tbl[i].video_id = t.video_id
                      THEN [tbl[i] EXCEPT !.title = t.title, !.channel = t.channel,
                                          !.views = t.views, !.category = t.category,
                                          !.fetched_at = ToRfc3339(t.fetched_at)]
                      ELSE tbl[i]]
              ELSE Append(tbl, [id |-> seq + 1, video_id |-> t.video_id,
                                title |-> t.title, channel |-> t.channel,
                                views |-> t.views, category |-> t.category,
                                fetched_at |-> ToRfc3339(t.fetched_at)]),
     ok |-> TRUE]

\* INSERT OR IGNORE INTO trends (video_id, title, channel, views, category, fetched_at):
\* the UNIQUE conflict on video_id skips the row without an error; id is
\* AUTOINCREMENT, the rowid after seq, the largest one handed out before
InsertOrIgnoreTrend(tbl, t, seq) ==
    IF \E i \in 1..Len(tbl) : tbl[i].video_id = t.video_id
    THEN [rows |-> tbl, ok |-> TRUE]
    ELSE [rows |-> Append(tbl, [id |-> seq + 1, video_id |-> t.video_id,
                                title |-> t.title, channel |-> t.channel,
                                views |-> t.views, category |-> t.category,
                                fetched_at |-> ToRfc3339(t.fetched_at)]),
          ok |-> TRUE]

\* CHECK(status IN ('pending','generating','rendering','done','failed'))
StatusCheck(text) == text \in {"pending", "generating", "rendering", "done", "failed"}

\* INSERT INTO jobs (trend_id, status, priority) VALUES (?, 'pending', ?) with the
\* column defaults of init_schema
NewJobRow(id, trend_id, priority, now) ==
    [id |-> id, trend_id |-> trend_id, status |-> "pending", priority |-> priority,
     retry_count |-> 0, error_msg |-> None, created_at |-> CurrentTimestamp(now),
     started_at |-> None, finished_at |-> None]

\* Mutant: every arm stamps started_at
UpdatedJobRowStamping(row, status, error_msg, now) ==
    IF status \in {"Generating", "Rendering"}
    THEN [row EXCEPT !.status = as_str(status), !.started_at = Some(ToRfc3339(now))]
    ELSE IF status \in {"Done", "Failed"}
    THEN [row EXCEPT !.status = as_str(status), !.finished_at = Some(ToRfc3339(now)),
                     !.error_msg = error_msg]
    ELSE [row EXCEPT !.status = as_str(status), !.started_at = Some(ToRfc3339(now))]

\* Mutant: a return to pending is counted as a retry
UpdatedJobRowRetrying(row, status, error_msg, now) ==
    IF status \in {"Generating", "Rendering"}
    THEN [row EXCEPT !.status = as_str(status), !.started_at = Some(ToRfc3339(now))]
    ELSE IF status \in {"Done", "Failed"}
    THEN [row EXCEPT !.status = as_str(status), !.finished_at = Some(ToRfc3339(now)),
                     !.error_msg = error_msg]
    ELSE [row EXCEPT !.status = as_str(status), !.retry_count = @ + 1]

\* The three UPDATE statements of update_job_status, applied to the row they match
UpdatedJobRow(row, status, error_msg, now) ==
    IF status \in {"Generating", "Rendering"}
    THEN [row EXCEPT !.status = as_str(status), !.started_at = Some(ToRfc3339(now))]
    ELSE IF status \in {"Done", "Failed"}
    THEN [row EXCEPT !.status = as_str(status), !.finished_at = Some(ToRfc3339(now)),
                     !.error_msg = error_msg]
    ELSE [row EXCEPT !.status = as_str(status)]

\* FROM jobs j JOIN trends t ON j.trend_id = t.id WHERE j.status = 'pending'
PendingJoined == {i \in JobIds : jobs[i].status = "pending" /\ TrendExists(jobs[i].trend_id)}

\* ORDER BY j.priority DESC, j.created_at ASC: row a sorts strictly before row b
SortsBefore(a, b) ==
    \/ a.priority > b.priority
    \/ a.priority = b.priority /\ a.created_at.t < b.created_at.t

\* LIMIT 1: the rows that may come first; SQL leaves the order of rows with equal
\* sort keys to the engine
FirstPending == {i \in PendingJoined : \A k \in PendingJoined : ~SortsBefore(jobs[k], jobs[i])}

\* The Job and Trend structs get_next_pending_job builds from the selected row
DecodeJob(row, now) ==
    [id |-> Some(row.id), trend_id |-> row.trend_id, status |-> from_str(row.status),
     priority |-> row.priority, retry_count |-> row.retry_count,
     error_msg |-> row.error_msg,
     created_at |-> UnwrapOr(ParseRfc3339(row.created_at), now),
     started_at |-> IF IsSome(row.started_at)
                    THEN ParseRfc3339(Unwrap(row.started_at)) ELSE None,
     finished_at |-> IF IsSome(row.finished_at)
                     THEN ParseRfc3339(Unwrap(row.finished_at)) ELSE None]

DecodeTrend(row, now) ==
    [id |-> Some(row.id), video_id |-> row.video_id, title |-> row.title,
     channel |-> row.channel, views |-> row.views, category |-> row.category,
     fetched_at |-> UnwrapOr(ParseRfc3339(row.fetched_at), now)]

\* Mutant: jobs in progress are counted with the pending ones
CountJobsNotFinished(status) ==
    Cardinality({i \in JobIds :
                    \/ jobs[i].status = status
                    \/ status = "pending" /\ jobs[i].status \in {"generating", "rendering"}})

\* SELECT COUNT(*) FROM jobs WHERE status = ...
CountJobs(status) == Cardinality({i \in JobIds : jobs[i].status = status})

----------------------------------------------------------------------------
(* Inputs *)

VideoIds == {"vidA", "vidB"}
Titles == {"title_a", "title_b"}
Priorities == {0, 1}
ErrorMsgs == {None, Some("boom")}

\* Trend arguments of insert_trend
TrendInputs ==
    {t \in [video_id : VideoIds, title : Titles, channel : {None, Some("chan")},
            views : {None, Some(7)}, category : {None, Some("music")},
            fetched_at : {0, 1}] :
        IsSome(t.category) = IsSome(t.channel) /\ IsSome(t.views) = (t.fetched_at = 1)}

\* One trend per video_id
PlainTrendInputs ==
    {t \in TrendInputs : t.title = "title_a" /\ t.channel = None /\ t.views = None
                         /\ t.category = None /\ t.fetched_at = 0}

\* trend_id arguments of create_job: the last one never names a row
TrendIdInputs == 1..(MaxTrendSeq + 1)

\* job_id arguments of update_job_status: the last one never names a row
JobIdInputs == 1..(MaxJobs + 1)

----------------------------------------------------------------------------
(* Initial state: a freshly created database file, nobody holding the mutex *)

\* Result<T, E>
Ok(v) == [ok |-> TRUE, val |-> v]
Err == [ok |-> FALSE]

Init ==
    /\ config = [k \in ConfigKeys |-> None]
    /\ trends = <<>>
    /\ jobs = <<>>
    /\ lastRowid = 0
    /\ maxRowid = [trends |-> 0, config |-> 0]
    /\ clock = 0
    /\ foreign_keys \in BOOLEAN
    /\ lock = {}
    /\ pc = [c \in Callers |-> "idle"]
    /\ acc = [c \in Callers |-> <<>>]
    /\ held = [c \in Callers |-> None]
    /\ ret = None
    /\ firstInsert = [v \in VideoIds |-> None]
    /\ reinserted = {}
    /\ snap = None

----------------------------------------------------------------------------
(* The mutex of AppState *)

\* Mutant: lock() never waits
MutexNeverHeld == TRUE

\* state.db.lock(): blocks until nobody holds the mutex
MutexFree == lock = {}

\* An operation of one SQL statement: lock, execute, unlock in one step
Enter(c) == pc[c] = "idle" /\ MutexFree

\* A caller invokes a command of lib.rs: it is at state.db.lock() until the
\* mutex is free
Invoke(c, command, arg) ==
    /\ pc[c] = "idle"
    /\ pc' = [pc EXCEPT ![c] = command]
    /\ acc' = [acc EXCEPT ![c] = arg]
    /\ UNCHANGED <<config, trends, jobs, lastRowid, maxRowid, clock, foreign_keys, lock, held, ret,
                   firstInsert, reinserted, snap>>

\* The caller is inside the command, holding the mutex
Inside(c, command) == pc[c] = command /\ c \in lock

\* state.db.lock() returns the guard
Acquire(c, command) ==
    /\ pc[c] = command
    /\ c \notin lock
    /\ MutexFree
    /\ lock' = lock \cup {c}

\* The operation returns r
Return(op, r) == ret' = Some([op |-> op, res |-> r])

\* The last completed operation was op and it returned Ok
Returned(op) == IsSome(ret) /\ Unwrap(ret).op = op /\ Unwrap(ret).res.ok

\* The value that operation returned
Value == Unwrap(ret).res.val

Tick ==
    /\ clock < MaxClock
    /\ clock' = clock + 1
    /\ UNCHANGED <<config, trends, jobs, lastRowid, maxRowid, foreign_keys, lock, pc, acc, held,
                   ret, firstInsert, reinserted, snap>>

----------------------------------------------------------------------------
(* Trends and jobs *)

\* Mutant: on a conflict the id of the stored row is fetched and returned
insert_trend_refetching(c, t) ==
    LET r == InsertOrIgnoreTrend(trends, t, maxRowid.trends)
        rowid == IF r.rows # trends THEN maxRowid.trends + 1 ELSE lastRowid
        id == r.rows[CHOOSE i \in 1..Len(r.rows) : r.rows[i].video_id = t.video_id].id
    IN  /\ Enter(c)
        /\ maxRowid.trends < MaxTrendSeq
        /\ trends' = r.rows
        /\ lastRowid' = rowid
        /\ maxRowid' = [maxRowid EXCEPT !.trends = @ + 1]
        /\ Return("insert_trend", IF r.ok THEN Ok(id) ELSE Err)
        /\ firstInsert' = IF IsSome(firstInsert[t.video_id]) THEN firstInsert
                          ELSE [firstInsert EXCEPT ![t.video_id] = Some(t)]
        /\ reinserted' = IF IsSome(firstInsert[t.video_id])
                            /\ Unwrap(firstInsert[t.video_id]) # t
                         THEN reinserted \cup {t.video_id} ELSE reinserted
        /\ UNCHANGED <<config, jobs, clock, foreign_keys, lock, pc, acc, held, snap>>

\* Database::insert_trend.  The statement takes the next AUTOINCREMENT rowid
\* before it meets the conflict, and the rowid stays used when the row is
\* ignored; last_insert_rowid() changes only when a row is inserted
insert_trend(c, t) ==
    LET r == InsertOrIgnoreTrend(trends, t, maxRowid.trends)
        rowid == IF r.rows # trends THEN maxRowid.trends + 1 ELSE lastRowid
    IN  /\ Enter(c)
        /\ maxRowid.trends < MaxTrendSeq
        /\ trends' = r.rows
        /\ lastRowid' = rowid
        /\ maxRowid' = [maxRowid EXCEPT !.trends = @ + 1]
        /\ Return("insert_trend", IF r.ok THEN Ok(rowid) ELSE Err)
        /\ firstInsert' = IF IsSome(firstInsert[t.video_id]) THEN firstInsert
                          ELSE [firstInsert EXCEPT ![t.video_id] = Some(t)]
        /\ reinserted' = IF IsSome(firstInsert[t.video_id])
                            /\ Unwrap(firstInsert[t.video_id]) # t
                         THEN reinserted \cup {t.video_id} ELSE reinserted
        /\ UNCHANGED <<config, jobs, clock, foreign_keys, lock, pc, acc, held, snap>>

\* Database::get_trend_by_video_id
get_trend_by_video_id(c, video_id) ==
    /\ Enter(c)
    /\ Return("get_trend_by_video_id",
              Ok(IF RowOfVideo(video_id) = {} THEN None
                 ELSE Some(DecodeTrend(trends[CHOOSE i \in RowOfVideo(video_id) : TRUE],
                                       clock))))
    /\ UNCHANGED <<config, trends, jobs, lastRowid, maxRowid, clock, foreign_keys, lock,
                   pc, acc, held, firstInsert, reinserted, snap>>

\* Mutant: a trend that has a job gets no second one, the id of the job it has
\* is returned
create_job_once(c, trend_id, priority) ==
    LET id == Len(jobs) + 1
        accepted == ~foreign_keys \/ TrendExists(trend_id)
        same == {i \in JobIds : jobs[i].trend_id = trend_id}
    IN  /\ Enter(c)
        /\ Len(jobs) < MaxJobs
        /\ IF accepted /\ same = {}
           THEN /\ jobs' = Append(jobs, NewJobRow(id, trend_id, priority, clock))
                /\ lastRowid' = id
                /\ UNCHANGED maxRowid
                /\ Return("create_job", Ok(id))
           ELSE /\ UNCHANGED <<jobs, lastRowid, maxRowid>>
                /\ Return("create_job",
                          IF accepted THEN Ok(CHOOSE i \in same : TRUE) ELSE Err)
        /\ UNCHANGED <<config, trends, clock, foreign_keys, lock, pc, acc, held,
                       firstInsert, reinserted, snap>>

\* Database::create_job
create_job(c, trend_id, priority) ==
    LET id == Len(jobs) + 1
        accepted == ~foreign_keys \/ TrendExists(trend_id)
    IN  /\ Enter(c)
        /\ Len(jobs) < MaxJobs
        /\ IF accepted
           THEN /\ jobs' = Append(jobs, NewJobRow(id, trend_id, priority, clock))
                /\ lastRowid' = id
                /\ UNCHANGED maxRowid
                /\ Return("create_job", Ok(id))
           ELSE /\ UNCHANGED <<jobs, lastRowid, maxRowid>>
                /\ Return("create_job", Err)
        /\ UNCHANGED <<config, trends, clock, foreign_keys, lock, pc, acc, held,
                       firstInsert, reinserted, snap>>

\* The Option<(Job, Trend)> get_next_pending_job returns when the query yields rows
JobAndTrend(rows, now) ==
    IF rows = {} THEN {None}
    ELSE {Some([job |-> DecodeJob(jobs[i], now),
                trend |-> DecodeTrend(TrendById(jobs[i].trend_id), now)]) : i \in rows}

\* Mutant: the dequeue claims the job it returns (selection and transition in
\* one statement)
get_next_pending_job_claiming(c) ==
    /\ Enter(c)
    /\ \E r \in JobAndTrend(FirstPending, clock) :
          /\ Return("get_next_pending_job", Ok(r))
          /\ held' = [held EXCEPT ![c] = IF IsSome(r) THEN Unwrap(r).job.id ELSE None]
          /\ jobs' = [i \in JobIds |->
                        IF IsSome(r) /\ Unwrap(r).job.id = Some(i)
                        THEN [jobs[i] EXCEPT !.status = "generating"] ELSE jobs[i]]
    /\ UNCHANGED <<config, trends, lastRowid, maxRowid, clock, foreign_keys, lock, pc, acc,
                   firstInsert, reinserted, snap>>

\* Database::get_next_pending_job
get_next_pending_job(c) ==
    /\ Enter(c)
    /\ \E r \in JobAndTrend(FirstPending, clock) :
          /\ Return("get_next_pending_job", Ok(r))
          /\ held' = [held EXCEPT ![c] = IF IsSome(r) THEN Unwrap(r).job.id ELSE None]
    /\ UNCHANGED <<config, trends, jobs, lastRowid, maxRowid, clock, foreign_keys, lock, pc, acc,
                   firstInsert, reinserted, snap>>

\* Mutant: the UPDATE has no WHERE clause
update_job_status_every_row(c, job_id, status, error_msg) ==
    /\ Enter(c)
    /\ jobs' = [i \in JobIds |-> UpdatedJobRow(jobs[i], status, error_msg, clock)]
    /\ Return("update_job_status", Ok(<<>>))
    /\ held' = [held EXCEPT ![c] = IF held[c] = Some(job_id) THEN None ELSE held[c]]
    /\ UNCHANGED <<config, trends, lastRowid, maxRowid, clock, foreign_keys, lock, pc,
                   acc, firstInsert, reinserted, snap>>

\* Mutant: a transition outside pending -> generating|rendering -> done|failed
\* is refused
update_job_status_validating(c, job_id, status, error_msg) ==
    /\ Enter(c)
    /\ IF \A i \in JobIds : jobs[i].id = job_id =>
             \/ /\ jobs[i].status = "pending"
                /\ status \in {"Generating", "Rendering"}
             \/ /\ jobs[i].status \in {"generating", "rendering"}
                /\ status \in {"Done", "Failed"}
       THEN /\ jobs' = [i \in JobIds |->
                          IF jobs[i].id = job_id
                          THEN UpdatedJobRow(jobs[i], status, error_msg, clock)
                          ELSE jobs[i]]
            /\ Return("update_job_status", Ok(<<>>))
       ELSE /\ UNCHANGED jobs
            /\ Return("update_job_status", Err)
    /\ held' = [held EXCEPT ![c] = IF held[c] = Some(job_id) THEN None ELSE held[c]]
    /\ UNCHANGED <<config, trends, lastRowid, maxRowid, clock, foreign_keys, lock, pc, acc,
                   firstInsert, reinserted, snap>>

\* Database::update_job_status
update_job_status(c, job_id, status, error_msg) ==
    /\ Enter(c)
    /\ IF StatusCheck(as_str(status))
       THEN /\ jobs' = [i \in JobIds |->
                          IF jobs[i].id = job_id
                          THEN UpdatedJobRow(jobs[i], status, error_msg, clock)
                          ELSE jobs[i]]
            /\ Return("update_job_status", Ok(<<>>))
       ELSE /\ UNCHANGED jobs
            /\ Return("update_job_status", Err)
    /\ held' = [held EXCEPT ![c] = IF held[c] = Some(job_id) THEN None ELSE held[c]]
    /\ UNCHANGED <<config, trends, lastRowid, maxRowid, clock, foreign_keys, lock, pc, acc,
                   firstInsert, reinserted, snap>>

\* The four queries of Database::get_stats, in order
StatsQuery(i) ==
    CASE i = 1 -> Len(trends)
      [] i = 2 -> CountJobs("pending")
      [] i = 3 -> CountJobs("done")
      [] i = 4 -> CountJobs("failed")

DashboardStats(v) ==
    [total_trends |-> v[1], pending_jobs |-> v[2], completed_jobs |-> v[3],
     failed_jobs |-> v[4]]

\* lib.rs get_stats is invoked
get_stats_call(c) == Invoke(c, "get_stats", <<>>)

\* lib.rs get_stats: state.db.lock()
get_stats_lock(c) ==
    /\ Acquire(c, "get_stats")
    /\ UNCHANGED <<config, trends, jobs, lastRowid, maxRowid, clock, foreign_keys, pc, acc, held,
                   ret, firstInsert, reinserted, snap>>

\* lib.rs get_stats: db.get_stats(), one query per step; the guard is dropped
\* when the function returns after the fourth
get_stats_query(c) ==
    LET got == Append(acc[c], StatsQuery(Len(acc[c]) + 1))
    IN  /\ Inside(c, "get_stats")
        /\ IF Len(got) < 4
           THEN /\ acc' = [acc EXCEPT ![c] = got]
                /\ UNCHANGED <<lock, pc, ret>>
           ELSE /\ acc' = [acc EXCEPT ![c] = <<>>]
                /\ lock' = lock \ {c}
                /\ pc' = [pc EXCEPT ![c] = "idle"]
                /\ Return("get_stats", Ok(DashboardStats(got)))
        /\ UNCHANGED <<config, trends, jobs, lastRowid, maxRowid, clock, foreign_keys, held,
                       firstInsert, reinserted, snap>>

----------------------------------------------------------------------------
(* Config *)

\* The rowids left in the model for n more rows of config, beside those of the
\* save_config calls under way (INSERT OR REPLACE gives every row it writes the
\* rowid after the largest in the table)
ConfigRoom(n) ==
    maxRowid.config + n
       + Len(ConfigFields) * Cardinality({c \in Callers : pc[c] = "save_config"})
       <= MaxConfigRowid

Txt_k1 == <<"k", "1">>
Txt_k2 == <<"k", "2">>
Txt_bot == <<"b">>
Txt_chat == <<"4", "2">>
Txt_endpoint == <<"h", "t", "t", "p", ":", "/", "/", "o">>

\* Config arguments of save_config
ConfigInputs ==
    [youtube_api_key : {None, Some(Txt_k1), Some(Txt_k2)},
     telegram_bot_token : {None, Some(Txt_bot)},
     telegram_chat_id : {None, Some(Txt_chat)},
     ollama_endpoint : {DefaultOllamaEndpoint},
     poll_interval_secs : {DefaultPollIntervalSecs, 60}]

\* (key, value) arguments of set_config called on its own
RawInputs ==
    {<<"poll_interval_secs", <<"0", "7">> >>, <<"poll_interval_secs", <<"5", "m">> >>,
     <<"ollama_endpoint", Txt_endpoint>>}

\* Database::set_config called on its own
set_config(c, key, value) ==
    /\ Enter(c)
    /\ ConfigRoom(1)
    /\ config' = SetConfig(config, key, value)
    /\ maxRowid' = [maxRowid EXCEPT !.config = @ + 1]
    /\ lastRowid' = maxRowid.config + 1
    /\ Return("set_config", Ok(<<>>))
    /\ UNCHANGED <<trends, jobs, clock, foreign_keys, lock, pc, acc, held,
                   firstInsert, reinserted, snap>>

\* lib.rs get_config is invoked
get_config_call(c) == Invoke(c, "get_config", <<>>)

\* lib.rs get_config: state.db.lock()
get_config_lock(c) ==
    /\ Acquire(c, "get_config")
    /\ snap' = Some(config)
    /\ UNCHANGED <<config, trends, jobs, lastRowid, maxRowid, clock, foreign_keys, pc, acc, held,
                   ret, firstInsert, reinserted>>

\* lib.rs get_config: db.load_config(), one get_config(key) per step; the guard
\* is dropped when the function returns after the fifth
load_config_step(c) ==
    LET got == Append(acc[c], GetConfig(config, ConfigFields[Len(acc[c]) + 1]))
    IN  /\ Inside(c, "get_config")
        /\ IF Len(got) < Len(ConfigFields)
           THEN /\ acc' = [acc EXCEPT ![c] = got]
                /\ UNCHANGED <<lock, pc, ret, snap>>
           ELSE /\ acc' = [acc EXCEPT ![c] = <<>>]
                /\ lock' = lock \ {c}
                /\ pc' = [pc EXCEPT ![c] = "idle"]
                /\ snap' = None
                /\ Return("get_config", Ok(ConfigFromValues(got)))
        /\ UNCHANGED <<config, trends, jobs, lastRowid, maxRowid, clock, foreign_keys, held,
                       firstInsert, reinserted>>

\* lib.rs save_config is invoked with a Config
save_config_call(c, cfg) ==
    /\ ConfigRoom(Len(ConfigFields))
    /\ Invoke(c, "save_config", <<cfg, 1>>)

\* lib.rs save_config: state.db.lock()
save_config_lock(c) ==
    /\ Acquire(c, "save_config")
    /\ snap' = Some(config)
    /\ UNCHANGED <<config, trends, jobs, lastRowid, maxRowid, clock, foreign_keys, pc, acc, held,
                   ret, firstInsert, reinserted>>

\* lib.rs save_config: db.save_config(&config), one field per step; the guard is
\* dropped when the function returns after the fifth
save_config_step(c) ==
    LET cfg == acc[c][1]
        i == acc[c][2]
    IN  /\ Inside(c, "save_config")
        /\ config' = SaveStatement(config, cfg, i)
        /\ IF IsSome(SaveValue(cfg, i))
           THEN /\ maxRowid' = [maxRowid EXCEPT !.config = @ + 1]
                /\ lastRowid' = maxRowid.config + 1
           ELSE UNCHANGED <<lastRowid, maxRowid>>
        /\ IF i < Len(ConfigFields)
           THEN /\ acc' = [acc EXCEPT ![c] = <<cfg, i + 1>>]
                /\ UNCHANGED <<lock, pc, ret, snap>>
           ELSE /\ acc' = [acc EXCEPT ![c] = <<>>]
                /\ lock' = lock \ {c}
                /\ pc' = [pc EXCEPT ![c] = "idle"]
                /\ snap' = None
                /\ Return("save_config", Ok(<<>>))
        /\ UNCHANGED <<trends, jobs, clock, foreign_keys, held, firstInsert,
                       reinserted>>

Commands == {"get_config", "save_config", "get_stats"}

\* Mutant: the error path returns with the guard still held
storage_error_keeping_guard(c) ==
    /\ pc[c] \in Commands
    /\ c \in lock
    /\ pc' = [pc EXCEPT ![c] = "idle"]
    /\ acc' = [acc EXCEPT ![c] = <<>>]
    /\ snap' = None
    /\ Return(pc[c], Err)
    /\ UNCHANGED <<config, trends, jobs, lastRowid, maxRowid, clock, foreign_keys, lock, held,
                   firstInsert, reinserted>>

\* A statement of the Database call fails (an I/O error of the file, say): the
\* `?` in db.rs returns the rusqlite error, the command maps it to Err(String)
\* and returns, which drops the guard
storage_error(c) ==
    /\ pc[c] \in Commands
    /\ c \in lock
    /\ lock' = lock \ {c}
    /\ pc' = [pc EXCEPT ![c] = "idle"]
    /\ acc' = [acc EXCEPT ![c] = <<>>]
    /\ snap' = None
    /\ Return(pc[c], Err)
    /\ UNCHANGED <<config, trends, jobs, lastRowid, maxRowid, clock, foreign_keys, held,
                   firstInsert, reinserted>>

----------------------------------------------------------------------------
(* Specifications.  Each one runs the operations above on the inputs its      *)
(* claims are about.                                                          *)

\* The queue: one consumer that creates jobs of either priority, for a stored
\* or a missing trend, dequeues, and moves jobs out of pending
Next ==
    \/ Tick
    \/ \E t \in PlainTrendInputs :
          trends = <<>> /\ t.video_id = "vidA" /\ insert_trend("c1", t)
    \/ \E tid \in {1, 2}, p \in Priorities : create_job("c1", tid, p)
    \/ get_next_pending_job("c1")
    \/ \E id \in 1..(Len(jobs) + 1) : update_job_status("c1", id, "Generating", None)

Spec == Init /\ [][Next]_vars

\* Two workers on the jobs of one trend: each dequeues and later reports a status
FewJobs == 1
FewConfigRows == 2

NextWorkers ==
    \/ Tick
    \/ \E c \in Callers :
          \/ \E t \in PlainTrendInputs :
                trends = <<>> /\ t.video_id = "vidA" /\ insert_trend(c, t)
          \/ Len(jobs) < FewJobs /\ create_job(c, 1, 0)
          \/ get_next_pending_job(c)
          \/ \E id \in 1..(Len(jobs) + 1), st \in {"Generating", "Done"} :
                update_job_status(c, id, st, None)

SpecWorkers == Init /\ [][NextWorkers]_vars

\* The life of the jobs of one trend: every target status, with and without
\* an error message, for stored and unknown job ids
NextLifecycle ==
    \/ Tick
    \/ \E t \in PlainTrendInputs :
          trends = <<>> /\ t.video_id = "vidA" /\ insert_trend("c1", t)
    \/ Len(jobs) < FewJobs /\ create_job("c1", 1, 0)
    \/ \E id \in 1..(Len(jobs) + 1), st \in JobStatus, m \in ErrorMsgs :
          update_job_status("c1", id, st, m)

SpecLifecycle == Init /\ [][NextLifecycle]_vars

\* The trend registry: trends that differ in every column, with the job
\* operations between the inserts
NextTrends ==
    \/ \E t \in TrendInputs : insert_trend("c1", t)
    \/ Len(jobs) < FewJobs /\ create_job("c1", 1, 0)
    \/ get_next_pending_job("c1")
    \/ \E id \in JobIds : update_job_status("c1", id, "Done", None)

SpecTrends == Init /\ [][NextTrends]_vars

\* The dashboard counts, read by caller c1 while caller c2 changes the tables
NextStats ==
    \/ \E t \in PlainTrendInputs :
          /\ RowOfVideo(t.video_id) = {} \/ maxRowid.trends = 1
          /\ insert_trend("c2", t)
    \/ create_job("c2", 1, 0)
    \/ \E id \in JobIds, st \in JobStatus :
          as_str(st) # jobs[id].status /\ update_job_status("c2", id, st, None)
    \/ get_stats_call("c1")
    \/ get_stats_lock("c1")
    \/ get_stats_query("c1")

SpecStats == Init /\ [][NextStats]_vars

\* The config store: caller c1 writes it, caller c2 reads it (the config table
\* has no REFERENCES clause)
NextConfig ==
    \/ \E kv \in RawInputs : set_config("c1", kv[1], kv[2])
    \/ \E cfg \in ConfigInputs : save_config_call("c1", cfg)
    \/ Returned("get_config") /\ save_config_call("c1", Value)
    \/ save_config_lock("c1")
    \/ save_config_step("c1")
    \/ get_config_call("c2")
    \/ get_config_lock("c2")
    \/ load_config_step("c2")

\* Every operation on trends and jobs by one caller: a video_id inserted with
\* two sets of columns, jobs of either trend, every target status, all within
\* one second
NextStore ==
    \/ \E t \in TrendInputs :
          /\ t.video_id = "vidA" /\ t.title = "title_b"
          /\ IsSome(t.channel) /\ IsSome(t.views)
          /\ insert_trend("c1", t)
    \/ \E t \in PlainTrendInputs : insert_trend("c1", t)
    \/ \E tid \in {1, 2} : Len(jobs) < FewJobs /\ create_job("c1", tid, 1)
    \/ \E id \in 1..(Len(jobs) + 1), st \in JobStatus, m \in ErrorMsgs :
          /\ IsSome(m) => st = "Failed"
          /\ update_job_status("c1", id, st, m)

SpecStore == Init /\ [][NextStore]_vars

\* Status updates of several jobs of one trend, for stored and unknown job ids
NextUpdates ==
    \/ \E t \in PlainTrendInputs :
          trends = <<>> /\ t.video_id = "vidA" /\ insert_trend("c1", t)
    \/ create_job("c1", 1, 0)
    \/ \E id \in 1..(Len(jobs) + 1), st \in JobStatus, m \in ErrorMsgs :
          /\ IsSome(m) => st = "Failed"
          /\ update_job_status("c1", id, st, m)

SpecUpdates == Init /\ [][NextUpdates]_vars

\* The single consumer has begun to drain the queue: from its first dequeue on,
\* every operation is a dequeue or a status update
Draining ==
    IsSome(ret) /\ Unwrap(ret).op \in {"get_next_pending_job", "update_job_status"}

\* Jobs of either priority are created for one trend; then one consumer, again
\* and again, dequeues a job and moves the job it was handed to done or failed
NextDrain ==
    \/ Tick
    \/ \E t \in PlainTrendInputs :
          ~Draining /\ trends = <<>> /\ t.video_id = "vidA" /\ insert_trend("c1", t)
    \/ \E p \in Priorities : ~Draining /\ create_job("c1", 1, p)
    \/ held["c1"] = None /\ get_next_pending_job("c1")
    \/ \E st \in {"Done", "Failed"} :
          /\ held["c1"] # None
          /\ update_job_status("c1", Unwrap(held["c1"]), st, None)

SpecDrain == Init /\ [][NextDrain]_vars

\* The consumer does not stop between a dequeue and the status update, nor
\* before the next dequeue
FairDrain ==
    /\ WF_vars(held["c1"] = None /\ get_next_pending_job("c1"))
    /\ WF_vars(\E st \in {"Done", "Failed"} :
                  /\ held["c1"] # None
                  /\ update_job_status("c1", Unwrap(held["c1"]), st, None))

SpecDrainFair == SpecDrain /\ FairDrain

\* The ids insert_trend returns, with the other inserts of the connection
\* between its calls: jobs and config rows
NextIds ==
    \/ \E t \in PlainTrendInputs : insert_trend("c1", t)
    \/ \E v \in VideoIds : get_trend_by_video_id("c1", v)
    \/ \E tid \in {1, 2} : Len(jobs) < FewJobs /\ create_job("c1", tid, 0)
    \/ /\ maxRowid.config < FewConfigRows
       /\ set_config("c1", "ollama_endpoint", Txt_endpoint)

SpecIds == Init /\ [][NextIds]_vars

InitConfig == Init /\ foreign_keys = FALSE

\* The three commands of lib.rs, called by both callers, any statement of
\* which may fail
NextCommands ==
    \E c \in Callers :
       \/ get_config_call(c)
       \/ get_config_lock(c)
       \/ load_config_step(c)
       \/ \E cfg \in ConfigInputs :
             /\ cfg.youtube_api_key # Some(Txt_k2)
             /\ IsSome(cfg.telegram_bot_token) = IsSome(cfg.youtube_api_key)
             /\ IsSome(cfg.telegram_chat_id) = IsSome(cfg.youtube_api_key)
             /\ cfg.poll_interval_secs = DefaultPollIntervalSecs
             /\ save_config_call(c, cfg)
       \/ save_config_lock(c)
       \/ save_config_step(c)
       \/ get_stats_call(c)
       \/ get_stats_lock(c)
       \/ get_stats_query(c)
       \/ storage_error(c)

\* A caller that holds the guard runs its next statement; a caller that waits in
\* lock() gets the mutex if it is free again and again
FairCommands ==
    \A c \in Callers :
       /\ SF_vars(get_config_lock(c) \/ save_config_lock(c) \/ get_stats_lock(c))
       /\ WF_vars(load_config_step(c) \/ save_config_step(c) \/ get_stats_query(c))

SpecCommands == InitConfig /\ [][NextCommands]_vars /\ FairCommands

SpecConfig == InitConfig /\ [][NextConfig]_vars

----------------------------------------------------------------------------
(* Trend registry *)

TrendColumnsOf(row) ==
    [video_id |-> row.video_id, title |-> row.title, channel |-> row.channel,
     views |-> row.views, category |-> row.category,
     fetched_at |-> Unwrap(ParseRfc3339(row.fetched_at))]

\* C1: whatever insert_trend calls were made, with job operations between them,
\* the trends table holds at most one row per video_id, a row exactly for the
\* video_ids that were inserted, every insert_trend returned Ok, and the columns
\* of each row are the arguments of the first insert_trend made with its video_id.
C1_FirstWriteWins ==
    /\ \A i, k \in TrendIds : trends[i].video_id = trends[k].video_id => i = k
    /\ \A v \in VideoIds :
          IF IsSome(firstInsert[v])
          THEN \E i \in TrendIds : TrendColumnsOf(trends[i]) = Unwrap(firstInsert[v])
          ELSE RowOfVideo(v) = {}
    /\ IsSome(ret) /\ Unwrap(ret).op = "insert_trend" => Unwrap(ret).res.ok

\* C1 witness: vidA was inserted again with other columns after a job was
\* created, and the call returned
C1_Witness ==
    /\ "vidA" \in reinserted
    /\ jobs # <<>>
    /\ IsSome(ret) /\ Unwrap(ret).op = "insert_trend"
    /\ Len(trends) = 2

----------------------------------------------------------------------------
(* Job queue *)

PendingJobs == {i \in JobIds : jobs[i].status = "pending"}

\* C2: a job returned by get_next_pending_job is pending, no pending job has a
\* higher priority, and no pending job of the same priority was created before it
\* (job ids follow the order of the create_job calls).
C2_HighestPriorityEarliestFirst ==
    Returned("get_next_pending_job") /\ IsSome(Value) =>
        LET j == Unwrap(Value).job
        IN  /\ j.status = "Pending"
            /\ Unwrap(j.id) \in PendingJobs
            /\ \A k \in PendingJobs :
                  /\ jobs[k].priority <= j.priority
                  /\ jobs[k].priority = j.priority => Unwrap(j.id) <= k

\* C3: get_next_pending_job changes no table, and the job it returns is still
\* pending when it has returned.
C3_DequeueLeavesJobPending ==
    [][\A c \in Callers :
          get_next_pending_job(c) =>
             /\ storeVars' = storeVars
             /\ IsSome(held'[c]) => jobs'[Unwrap(held'[c])].status = "pending"]_vars

\* C3 witness: both workers were handed job 1 and neither has reported a status
C3_Witness ==
    /\ held["c1"] = Some(1)
    /\ held["c2"] = Some(1)
    /\ jobs[1].status = "pending"
    /\ Returned("get_next_pending_job")

----------------------------------------------------------------------------
(* Config store *)

\* C4: at most one caller holds the mutex; while a caller is inside get_config
\* the config table is the one it found when it took the mutex, no save_config
\* being under way then; and the Config it returns is the load of that table:
\* the whole table before a save_config or the whole table after it.
C4_LoadSeesNoPartialSave ==
    [][/\ Cardinality(lock') <= 1
       /\ \A c \in Callers :
             /\ get_config_lock(c) => \A d \in Callers : ~Inside(d, "save_config")
             /\ Inside(c, "get_config") =>
                   /\ snap = Some(config)
                   /\ pc'[c] = "idle" =>
                         ret' = Some([op |-> "get_config",
                                      res |-> Ok(LoadConfig(Unwrap(snap)))])]_vars

\* C4 witness: c1 is inside save_config with part of its writes done while c2
\* has called get_config and waits for the mutex
C4_Witness ==
    /\ Inside("c1", "save_config")
    /\ config # Unwrap(snap)
    /\ config # SaveConfig(Unwrap(snap), acc["c1"][1])
    /\ pc["c2"] = "get_config"
    /\ "c2" \notin lock

\* C9: for the config table of every reachable state, loading it, saving the
\* loaded Config and loading again returns the same Config, and saving that
\* Config a second time leaves the table as the first save left it.
C9_SaveOfLoadedIsIdempotent ==
    LET c == LoadConfig(config)
        saved == SaveConfig(config, c)
    IN  /\ LoadConfig(saved) = c
        /\ SaveConfig(saved, c) = saved

\* C9 witness: the Config loaded from a table holding the interval text "07"
\* and no bot token was saved back, which rewrote the interval as "7"
C9_Witness ==
    /\ Returned("save_config")
    /\ config["poll_interval_secs"] = Some(<<"7">>)
    /\ config["telegram_bot_token"] = None
    /\ IsSome(config["youtube_api_key"])

OptionalFields == {"youtube_api_key", "telegram_bot_token", "telegram_chat_id"}

\* C10: when save_config returns, each optional field that was None in the saved
\* Config has the value it had when the save began, so load_config returns the
\* earlier value; each optional field that was present has the saved value; and
\* ollama_endpoint and poll_interval_secs hold the saved values.
C10_SaveSkipsNoneFields ==
    [][\A c \in Callers :
          Inside(c, "save_config") /\ pc'[c] = "idle" =>
             LET cfg == acc[c][1]
                 before == Unwrap(snap)
             IN  /\ \A k \in OptionalFields :
                       /\ cfg[k] = None =>
                             /\ config'[k] = before[k]
                             /\ LoadConfig(config')[k] = LoadConfig(before)[k]
                       /\ IsSome(cfg[k]) => config'[k] = cfg[k]
                 /\ config'["ollama_endpoint"] = Some(cfg.ollama_endpoint)
                 /\ LoadConfig(config').poll_interval_secs = cfg.poll_interval_secs
                 /\ IsSome(config'["poll_interval_secs"])]_vars

\* C10 witness: a save_config whose Config has no API key and a bot token has
\* run its statements for the optional fields and the endpoint; the API key
\* stored before is still there and an endpoint stored before was overwritten
C10_Witness ==
    /\ Inside("c1", "save_config")
    /\ acc["c1"][2] = 5
    /\ acc["c1"][1].youtube_api_key = None
    /\ IsSome(acc["c1"][1].telegram_bot_token)
    /\ Unwrap(snap)["youtube_api_key"] = Some(Txt_k1)
    /\ config["youtube_api_key"] = Some(Txt_k1)
    /\ Unwrap(snap)["ollama_endpoint"] = Some(Txt_endpoint)
    /\ config["ollama_endpoint"] = Some(DefaultOllamaEndpoint)

----------------------------------------------------------------------------
(* Job lifecycle *)

\* C5: every job is created in pending, a job whose status is done or failed
\* keeps that status in every later state, and a job in generating or rendering
\* never goes back to pending.
C5_StatusAdvancesMonotonically ==
    [][/\ \A i \in DOMAIN jobs' : i \notin JobIds => jobs'[i].status = "pending"
       /\ \A i \in JobIds :
             /\ jobs[i].status \in {"done", "failed"} =>
                   jobs'[i].status = jobs[i].status
             /\ jobs[i].status \in {"generating", "rendering"} =>
                   jobs'[i].status # "pending"]_vars

\* C6: started_at of a job changes only in an update_job_status of that job to
\* generating or rendering; finished_at and error_msg change only in an
\* update_job_status of that job to done or failed; an update_job_status to
\* pending changes the status column of its job and nothing else in the table.
C6_TimestampsFollowTheTarget ==
    [][/\ \A i \in JobIds :
             /\ jobs'[i].started_at # jobs[i].started_at =>
                   \E c \in Callers, m \in ErrorMsgs, st \in {"Generating", "Rendering"} :
                      update_job_status(c, i, st, m)
             /\ \/ jobs'[i].finished_at # jobs[i].finished_at
                \/ jobs'[i].error_msg # jobs[i].error_msg
                => \E c \in Callers, m \in ErrorMsgs, st \in {"Done", "Failed"} :
                      update_job_status(c, i, st, m)
       /\ \A c \in Callers, id \in JobIdInputs, m \in ErrorMsgs :
             update_job_status(c, id, "Pending", m) =>
                jobs' = [i \in JobIds |->
                           IF i = id THEN [jobs[i] EXCEPT !.status = "pending"]
                           ELSE jobs[i]]]_vars

\* C6 witness: a job that had been started and had failed with a message was
\* updated to pending; its three columns are as they were
C6_Witness ==
    /\ IsSome(ret) /\ Unwrap(ret).op = "update_job_status"
    /\ jobs # <<>>
    /\ jobs[1].status = "pending"
    /\ jobs[1].started_at = Some(ToRfc3339(0))
    /\ jobs[1].finished_at = Some(ToRfc3339(1))
    /\ jobs[1].error_msg = Some("boom")

\* C7: an update_job_status of an existing job to done with message m leaves the
\* job with finished_at set and error_msg = m; an update_job_status of an
\* existing job to generating leaves it with started_at set and finished_at unset.
C7_FieldsAfterUpdate ==
    [][\A c \in Callers, i \in JobIds, m \in ErrorMsgs :
          /\ update_job_status(c, i, "Done", m) =>
                IsSome(jobs'[i].finished_at) /\ jobs'[i].error_msg = m
          /\ update_job_status(c, i, "Generating", m) =>
                IsSome(jobs'[i].started_at) /\ jobs'[i].finished_at = None]_vars

----------------------------------------------------------------------------
(* Dashboard *)

\* C8: whenever get_stats is the operation that returned last, it returned Ok
\* with total_trends = the number of trend rows = the number of video_ids ever
\* inserted, pending_jobs, completed_jobs and failed_jobs = the number of jobs
\* whose status is pending, done and failed; all four are 0 on an empty store,
\* and a job in generating or rendering is in none of the three job counts.
C8_StatsCountTheTables ==
    IsSome(ret) /\ Unwrap(ret).op = "get_stats" =>
       /\ Unwrap(ret).res.ok
       /\ Value.total_trends = Len(trends)
       /\ Value.total_trends = Cardinality({v \in VideoIds : IsSome(firstInsert[v])})
       /\ Value.pending_jobs = Cardinality({i \in JobIds : jobs[i].status = "pending"})
       /\ Value.completed_jobs = Cardinality({i \in JobIds : jobs[i].status = "done"})
       /\ Value.failed_jobs = Cardinality({i \in JobIds : jobs[i].status = "failed"})
       /\ Value.pending_jobs + Value.completed_jobs + Value.failed_jobs
             = Len(jobs) - Cardinality({i \in JobIds :
                                           jobs[i].status \in {"generating", "rendering"}})
       /\ (trends = <<>> /\ jobs = <<>>) =>
             Value = [total_trends |-> 0, pending_jobs |-> 0, completed_jobs |-> 0,
                      failed_jobs |-> 0]

\* C8 witness: get_stats returned over two trends, one job done and one job in
\* generating
C8_Witness ==
    /\ Returned("get_stats")
    /\ Value = [total_trends |-> 2, pending_jobs |-> 0, completed_jobs |-> 1,
                failed_jobs |-> 0]
    /\ \E i \in JobIds : jobs[i].status = "generating"

----------------------------------------------------------------------------
(* Config defaults *)

\* C11: get_config never returns an error, and in every reachable state of the
\* config table load_config gives, for each key that was never written, the
\* default (the optional field absent, the endpoint "http://localhost:11434",
\* the interval 300), and gives 300 for the interval when the stored text is
\* empty or holds a character that is no decimal digit and no sign.
C11_LoadFallsBackToDefaults ==
    /\ IsSome(ret) /\ Unwrap(ret).op = "get_config" => Unwrap(ret).res.ok
    /\ LET c == LoadConfig(config)
           poll == config["poll_interval_secs"]
       IN  /\ \A k \in OptionalFields : config[k] = None => c[k] = None
           /\ config["ollama_endpoint"] = None =>
                 c.ollama_endpoint = <<"h", "t", "t", "p", ":", "/", "/", "l", "o",
                                       "c", "a", "l", "h", "o", "s", "t", ":", "1",
                                       "1", "4", "3", "4">>
           /\ poll = None => c.poll_interval_secs = 300
           /\ /\ IsSome(poll)
              /\ \/ Unwrap(poll) = <<>>
                 \/ \E i \in 1..Len(Unwrap(poll)) :
                       Unwrap(poll)[i] \notin {"0", "1", "2", "3", "4", "5", "6",
                                               "7", "8", "9", "+"}
              => c.poll_interval_secs = 300

\* C11 witness: get_config returned over a table whose only key is the interval,
\* stored as "5m"
C11_Witness ==
    /\ Returned("get_config")
    /\ config = [k \in ConfigKeys |->
                   IF k = "poll_interval_secs" THEN Some(<<"5", "m">>) ELSE None]
    /\ Value.poll_interval_secs = 300
    /\ Value.ollama_endpoint = DefaultOllamaEndpoint
    /\ Value.youtube_api_key = None

----------------------------------------------------------------------------
(* Job creation *)

\* The row a create_job(trend_id, priority) that returned id has added
CreatedRow(id, trend_id, priority) ==
    /\ id \notin JobIds
    /\ Len(jobs') = Len(jobs) + 1
    /\ \A i \in JobIds : jobs'[i] = jobs[i]
    /\ \E i \in DOMAIN jobs' \ JobIds :
          /\ jobs'[i].id = id
          /\ jobs'[i].trend_id = trend_id
          /\ jobs'[i].status = "pending"
          /\ jobs'[i].priority = priority
          /\ jobs'[i].retry_count = 0
          /\ jobs'[i].started_at = None
          /\ jobs'[i].finished_at = None
          /\ jobs'[i].error_msg = None
    /\ trends' = trends

----------------------------------------------------------------------------
(* Transitions *)

\* C13: an update_job_status of an existing job returns Ok and leaves the job
\* with the target status, whatever status the job had and whichever of the five
\* statuses the target is.
C13_AnyTransitionIsAccepted ==
    [][\A c \in Callers, i \in JobIds, st \in JobStatus, m \in ErrorMsgs :
          update_job_status(c, i, st, m) =>
             /\ Unwrap(ret').op = "update_job_status"
             /\ Unwrap(ret').res.ok
             /\ jobs'[i].status \in {"pending", "generating", "rendering", "done",
                                     "failed"}
             /\ from_str(jobs'[i].status) = st]_vars

\* C13 witness: a job that had failed with a message was moved to generating
C13_Witness ==
    /\ Returned("update_job_status")
    /\ jobs # <<>>
    /\ jobs[1].status = "generating"
    /\ jobs[1].error_msg = Some("boom")
    /\ IsSome(jobs[1].finished_at)
    /\ IsSome(jobs[1].started_at)

----------------------------------------------------------------------------
(* Dequeue *)

\* C14: when get_next_pending_job has returned, its result is absent exactly
\* when no job has status pending; every job in the table was accepted by
\* create_job.
C14_AbsentIffNoPending ==
    IsSome(ret) /\ Unwrap(ret).op = "get_next_pending_job" =>
       /\ Unwrap(ret).res.ok
       /\ Value = None <=> PendingJobs = {}

----------------------------------------------------------------------------
(* Append-only store *)

\* C15: no step removes a trend row or a job row, no step changes a field of a
\* stored trend row, a step changes no field of a stored job row other than
\* status, started_at, finished_at and error_msg (so trend_id, priority and
\* created_at stay as created), and retry_count is 0 in every job row.
C15_AppendOnly ==
    [][/\ Len(trends') >= Len(trends)
       /\ \A i \in TrendIds : trends'[i] = trends[i]
       /\ Len(jobs') >= Len(jobs)
       /\ \A i \in JobIds :
             jobs'[i] = [jobs[i] EXCEPT !.status = jobs'[i].status,
                                        !.started_at = jobs'[i].started_at,
                                        !.finished_at = jobs'[i].finished_at,
                                        !.error_msg = jobs'[i].error_msg]
       /\ \A i \in DOMAIN jobs' : jobs'[i].retry_count = 0]_vars

\* C15 witness: a stored video_id was inserted again with other columns, and a
\* job that had failed with a message is pending again
C15_Witness ==
    /\ "vidA" \in reinserted
    /\ Len(trends) = 2
    /\ jobs # <<>>
    /\ jobs[1].status = "pending"
    /\ jobs[1].error_msg = Some("boom")
    /\ jobs[1].retry_count = 0

----------------------------------------------------------------------------
(* Lock release *)

\* C16: only a caller that is inside a command holds the mutex, a command that
\* returns, with Ok or with an error, leaves the mutex without its caller, and
\* every caller that has called get_config, save_config or get_stats eventually
\* returns from it.
C16_LockIsReleasedAndCallsComplete ==
    /\ [][/\ \A c \in Callers :
               pc[c] \in Commands /\ pc'[c] = "idle" => c \notin lock'
          /\ \A c \in lock' : pc'[c] \in Commands
          /\ \A c \in Callers :
               IsSome(ret') /\ ~Unwrap(ret').res.ok /\ ret' # ret /\ pc'[c] # pc[c]
                  => lock' = {}]_vars
    /\ \A c \in Callers : pc[c] \in Commands ~> pc[c] = "idle"

\* C16 witness: a command of c1 has returned an error, and c2, which had called
\* get_config, holds the mutex
C16_Witness ==
    /\ IsSome(ret) /\ ~Unwrap(ret).res.ok
    /\ pc["c1"] = "idle"
    /\ Inside("c2", "get_config")
    /\ acc["c2"] # <<>>

----------------------------------------------------------------------------
(* Ids returned by insert_trend *)

TrendRowIds == {trends[i].id : i \in TrendIds}

\* The row an insert_trend(t) that returned id has added
InsertedRow(t, id) ==
    /\ id \notin TrendRowIds
    /\ Len(trends') = Len(trends) + 1
    /\ \A i \in TrendIds : trends'[i] = trends[i]
    /\ trends'[Len(trends')].id = id
    /\ trends'[Len(trends')].video_id = t.video_id

\* C17 as stated: insert_trend returns Ok; for a video_id not stored it returns
\* the id of the row it has added; for a stored video_id it leaves the trend
\* rows and their ids as they were and returns the id of the most recent row
\* inserted into trends or jobs, so the id of a trend row or of a job row.
C17_ReturnsTrendOrJobId ==
    [][\A c \in Callers, t \in TrendInputs :
          insert_trend(c, t) =>
             /\ Unwrap(ret').res.ok
             /\ IF RowOfVideo(t.video_id) = {}
                THEN InsertedRow(t, Unwrap(ret').res.val)
                ELSE /\ trends' = trends
                     /\ Unwrap(ret').res.val \in TrendRowIds \cup JobIds]_vars

\* C17 amended: insert_trend returns Ok; for a video_id not stored it returns the
\* id of the row it has added, which get_trend_by_video_id reports; for a stored
\* video_id it leaves the trend rows and their ids as they were and returns the
\* connection's last insert rowid, unchanged.  That rowid is the id of the most
\* recent row inserted through the connection into any table: insert_trend sets
\* it when it adds a row, create_job when it returns Ok, a write of a config key
\* sets it to the rowid of the config row, and no other step changes it.
C17_ReturnsLastInsertRowid ==
    [][/\ \A c \in Callers, t \in TrendInputs :
             insert_trend(c, t) =>
                /\ Unwrap(ret').res.ok
                /\ IF RowOfVideo(t.video_id) = {}
                   THEN /\ InsertedRow(t, Unwrap(ret').res.val)
                        /\ lastRowid' = Unwrap(ret').res.val
                   ELSE /\ trends' = trends
                        /\ Unwrap(ret').res.val = lastRowid
                        /\ lastRowid' = lastRowid
       /\ \A c \in Callers, v \in VideoIds :
             get_trend_by_video_id(c, v) =>
                /\ Unwrap(ret').res.ok
                /\ Unwrap(ret').res.val = None <=> RowOfVideo(v) = {}
                /\ \A i \in RowOfVideo(v) :
                      Unwrap(ret').res.val # None
                      /\ Unwrap(Unwrap(ret').res.val).id = Some(trends[i].id)
       /\ Len(jobs') > Len(jobs) => lastRowid' = jobs'[Len(jobs')].id
       /\ maxRowid'.config # maxRowid.config =>
             /\ maxRowid'.config > maxRowid.config
             /\ lastRowid' = maxRowid'.config
       /\ trends' = trends /\ jobs' = jobs /\ maxRowid'.config = maxRowid.config
             => lastRowid' = lastRowid]_vars

\* C17 witness: an insert_trend of a stored video_id has returned the rowid of
\* a config row, which is the id of no trend and of no job
C17_Witness ==
    /\ IsSome(ret) /\ Unwrap(ret).op = "insert_trend"
    /\ trends # <<>>
    /\ maxRowid.trends > Len(trends)
    /\ Value = maxRowid.config
    /\ Value \notin TrendRowIds \cup JobIds

----------------------------------------------------------------------------
(* Frame of update_job_status *)

\* C18: update_job_status returns Ok, adds and removes no job row, leaves every
\* job row whose id is not the given one, every trend row and the config table
\* as they were, and leaves the whole store as it was when no job has the given
\* id.
C18_UpdateTouchesOneJob ==
    [][\A c \in Callers, id \in JobIdInputs, st \in JobStatus, m \in ErrorMsgs :
          update_job_status(c, id, st, m) =>
             /\ Unwrap(ret').op = "update_job_status"
             /\ Unwrap(ret').res.ok
             /\ trends' = trends
             /\ config' = config
             /\ Len(jobs') = Len(jobs)
             /\ \A i \in JobIds : jobs[i].id # id => jobs'[i] = jobs[i]
             /\ (\A i \in JobIds : jobs[i].id # id) => storeVars' = storeVars]_vars

\* C18 witness: job 2 was updated to failed with a message and job 1 is as it
\* was created
C18_Witness ==
    /\ Returned("update_job_status")
    /\ Len(jobs) = 2
    /\ jobs[1] = [jobs[2] EXCEPT !.id = 1, !.status = "pending", !.error_msg = None,
                                 !.finished_at = None]
    /\ jobs[2].status = "failed"
    /\ jobs[2].error_msg = Some("boom")
    /\ held = [c \in Callers |-> None]

----------------------------------------------------------------------------
(* Single-consumer drain *)

\* C19: while one consumer drains the queue, a job that is done or failed is
\* never changed, so never returned again; a dequeue returns absent only when no
\* pending job has a trend; the job it returns is a pending one with a trend
\* such that no other has a higher priority and none of the same priority was
\* created before it (job ids follow the order of the create_job calls); and
\* once the drain has begun, a dequeue eventually returns absent with no
\* pending job that has a trend left.
C19_DrainInCreationOrder ==
    /\ Draining ~> (Returned("get_next_pending_job") /\ Value = None
                       /\ PendingJoined = {})
    /\ [][/\ \A i \in JobIds :
                Draining /\ jobs[i].status \in {"done", "failed"} => jobs'[i] = jobs[i]
          /\ get_next_pending_job("c1") =>
                LET r == Unwrap(ret').res.val
                IN  IF PendingJoined = {} THEN r = None
                    ELSE /\ r # None
                         /\ Unwrap(Unwrap(r).job.id) \in PendingJoined
                         /\ \A k \in PendingJoined :
                               /\ jobs[k].priority <= Unwrap(r).job.priority
                               /\ jobs[k].priority = Unwrap(r).job.priority
                                     => Unwrap(Unwrap(r).job.id) <= k]_vars

----------------------------------------------------------------------------
(* Status text coding *)

\* The five texts as_str produces
StatusNames == {"pending", "generating", "rendering", "done", "failed"}

\* Texts handed to from_str: the five names and texts that are none of them
\* (the empty text, a name in another case, a name with a trailing blank, a
\* word that is no status)
StatusTexts == StatusNames \cup {"", "Pending", "DONE", "failed ", "queued"}

\* A call of JobStatus::as_str on s: a pure function, no lock, no statement;
\* acc keeps the argument of the call
as_str_call(c, s) ==
    /\ pc[c] = "idle"
    /\ acc' = [acc EXCEPT ![c] = <<s>>]
    /\ Return("as_str", Ok(as_str(s)))
    /\ UNCHANGED <<config, trends, jobs, lastRowid, maxRowid, clock, foreign_keys,
                   lock, pc, held, firstInsert, reinserted, snap>>

\* A call of JobStatus::from_str on the text t; it returns Self, not a Result
from_str_call(c, t) ==
    /\ pc[c] = "idle"
    /\ acc' = [acc EXCEPT ![c] = <<t>>]
    /\ Return("from_str", Ok(from_str(t)))
    /\ UNCHANGED <<config, trends, jobs, lastRowid, maxRowid, clock, foreign_keys,
                   lock, pc, held, firstInsert, reinserted, snap>>

\* The coding is called directly and through the job operations that use it:
\* update_job_status writes as_str of the target, get_next_pending_job decodes
\* the stored text with from_str
NextCoding ==
    \/ \E s \in JobStatus : as_str_call("c1", s)
    \/ \E t \in StatusTexts : from_str_call("c1", t)
    \/ \E t \in PlainTrendInputs :
          trends = <<>> /\ t.video_id = "vidA" /\ insert_trend("c1", t)
    \/ Len(jobs) < FewJobs /\ create_job("c1", 1, 0)
    \/ \E id \in JobIds, st \in JobStatus : update_job_status("c1", id, st, None)
    \/ get_next_pending_job("c1")

SpecCoding == Init /\ [][NextCoding]_vars

\* C20: as_str gives the five statuses five different texts and from_str
\* brings each of them back to its status; a call of as_str returns a text
\* that from_str decodes to the argument and that no other status has; a call
\* of from_str returns a status and never an error, the status whose name the
\* text is, and Pending for every text that is none of the five names; the
\* status text of every stored job decodes and encodes back to itself.
C20_StatusCodingRoundTrips ==
    [][/\ \A s \in JobStatus : from_str(as_str(s)) = s
       /\ \A s, u \in JobStatus : as_str(s) = as_str(u) => s = u
       /\ \A i \in JobIds : as_str(from_str(jobs[i].status)) = jobs[i].status
       /\ \A s \in JobStatus :
             as_str_call("c1", s) =>
                LET r == Unwrap(ret').res
                IN  /\ r.ok
                    /\ r.val \in StatusNames
                    /\ from_str(r.val) = s
                    /\ \A u \in JobStatus \ {s} : as_str(u) # r.val
       /\ \A t \in StatusTexts :
             from_str_call("c1", t) =>
                LET r == Unwrap(ret').res
                IN  /\ r.ok
                    /\ r.val \in JobStatus
                    /\ t \in StatusNames => as_str(r.val) = t
                    /\ t \notin StatusNames => r.val = "Pending"]_vars

\* C20 witness: from_str was called on a text that is none of the five names
\* and returned Pending, while a stored job carries a status other than pending
C20_Witness ==
    /\ Returned("from_str")
    /\ acc["c1"] = <<"queued">>
    /\ Value = "Pending"
    /\ \E i \in JobIds : jobs[i].status = "failed"

====
